---- MODULE Spec2Model ----
(***************************************************************************)
(* Model of the ingestion-and-dispatch pipeline of pitch/pitch.py:         *)
(* the iBeacon decoder IBeaconParser.parse, the beacon callback            *)
(* (producer), the bounded hand-off queue pitch_q and                      *)
(* the queue consumer that fans every TiltStatus out to the enabled        *)
(* providers, together with pitch_main's start-up and the stop paths       *)
(* (time budget, KeyboardInterrupt, interpreter exit with daemon threads). *)
(***************************************************************************)
EXTENDS Integers, Sequences, FiniteSets, TLC

(***************************************************************************)
(* Bounds of the model.                                                    *)
(***************************************************************************)
\* number of Readings that are handed to the queue in one behaviour (beacon
\* events that are dropped before the queue are not limited)
MaxReadings == 2
\* largest value of config.queue_size that is explored (1..MaxQueueSize)
MaxQueueSize == 2
\* the clock time.time() runs over 0..MaxTime
MaxTime == 2
\* the largest number of bytes that follow the 23 bytes of a payload
MaxExtra == 1

(***************************************************************************)
(* Statics (pitch.py 22-34).                                               *)
(***************************************************************************)
None == "None"

uuid_to_colors ==
       ("a495bb20-c5b1-4b44-b512-1370f02d74de" :> "green")
    @@ ("a495bb30-c5b1-4b44-b512-1370f02d74de" :> "black")
    @@ ("a495bb10-c5b1-4b44-b512-1370f02d74de" :> "red")
    @@ ("a495bb60-c5b1-4b44-b512-1370f02d74de" :> "blue")
    @@ ("a495bb50-c5b1-4b44-b512-1370f02d74de" :> "orange")
    @@ ("a495bb70-c5b1-4b44-b512-1370f02d74de" :> "yellow")
    @@ ("a495bb40-c5b1-4b44-b512-1370f02d74de" :> "purple")
    @@ ("a495bb80-c5b1-4b44-b512-1370f02d74de" :> "pink")
    @@ ("a495bb40-c5b1-4b44-b512-1370f02d74df" :> "simulated")

\* dict((v, k) for k, v in uuid_to_colors.items())
colors_to_uuid ==
    [c \in {uuid_to_colors[u] : u \in DOMAIN uuid_to_colors} |->
        CHOOSE u \in DOMAIN uuid_to_colors : uuid_to_colors[u] = c]

\* a lookup with a default color instead of None for an absent key
uuid_to_colors_get_Default(uuid_val) ==
    IF uuid_val \in DOMAIN uuid_to_colors THEN uuid_to_colors[uuid_val] ELSE "unknown"

\* uuid_to_colors.get(uuid_val): the color, or None for an absent key
uuid_to_colors_get(uuid_val) ==
    IF uuid_val \in DOMAIN uuid_to_colors THEN uuid_to_colors[uuid_val] ELSE None

(***************************************************************************)
(* IBeaconParser.parse: bytes are numbers 0 .. 255, a payload is a         *)
(* sequence of bytes.                                                      *)
(***************************************************************************)
\* manufacturer_data[lo:hi] of Python: positions lo .. hi-1 counted from 0,
\* cut off at the end of the data
Slice(data, lo, hi) ==
    IF Len(data) <= lo THEN <<>>
    ELSE SubSeq(data, lo + 1, IF hi < Len(data) THEN hi ELSE Len(data))

\* the result of parse when the payload is not an iBeacon
NoPacket == [kind |-> "None"]

\* an exception leaving parse
Raised(what) == [kind |-> "raised", error |-> what]

HexDigits ==
    <<"0", "1", "2", "3", "4", "5", "6", "7",
      "8", "9", "a", "b", "c", "d", "e", "f">>

\* two lower-case hexadecimal digits of a byte
Hex2(byte) == HexDigits[(byte \div 16) + 1] \o HexDigits[(byte % 16) + 1]

\* '%032x' of the big-endian integer of the bytes, digit pair by digit pair
RECURSIVE HexOf(_)
HexOf(bytes) ==
    IF bytes = <<>> THEN "" ELSE Hex2(Head(bytes)) \o HexOf(Tail(bytes))

\* str(uuid.UUID(bytes=uuid_bytes)): 8-4-4-4-12 hexadecimal digits
UuidStr(uuid_bytes) ==
    HexOf(SubSeq(uuid_bytes, 1, 4)) \o "-" \o
    HexOf(SubSeq(uuid_bytes, 5, 6)) \o "-" \o
    HexOf(SubSeq(uuid_bytes, 7, 8)) \o "-" \o
    HexOf(SubSeq(uuid_bytes, 9, 10)) \o "-" \o
    HexOf(SubSeq(uuid_bytes, 11, 16))

\* struct.unpack("<16sHHb", buf): the two shorts read low byte first
struct_unpack_LittleEndian(buf) ==
    IF Len(buf) # 21 THEN Raised("struct.error")
    ELSE [kind |-> "fields",
          uuid_bytes |-> SubSeq(buf, 1, 16),
          major |-> buf[18] * 256 + buf[17],
          minor |-> buf[20] * 256 + buf[19],
          tx_power |-> IF buf[21] >= 128 THEN buf[21] - 256 ELSE buf[21]]

\* struct.unpack(">16sHHb", buf): 16 bytes, two big-endian unsigned shorts
\* and a signed byte; struct.error unless buf has exactly 21 bytes
struct_unpack(buf) ==
    IF Len(buf) # 21 THEN Raised("struct.error")
    ELSE [kind |-> "fields",
          uuid_bytes |-> SubSeq(buf, 1, 16),
          major |-> buf[17] * 256 + buf[18],
          minor |-> buf[19] * 256 + buf[20],
          tx_power |-> IF buf[21] >= 128 THEN buf[21] - 256 ELSE buf[21]]

\* parse with a length test that lets 22 bytes through
parse_ShortLengthTest(manufacturer_data) ==
    IF Len(manufacturer_data) < 22 THEN NoPacket
    ELSE IF manufacturer_data[1] # 2 \/ manufacturer_data[2] # 21 THEN NoPacket
    ELSE LET fields == struct_unpack(Slice(manufacturer_data, 2, 23))
         IN  IF fields.kind = "raised" THEN fields
             ELSE [kind |-> "packet",
                   uuid |-> UuidStr(fields.uuid_bytes),
                   major |-> fields.major,
                   minor |-> fields.minor,
                   tx_power |-> fields.tx_power]

\* IBeaconParser.parse(manufacturer_data) (pitch.py 58-81): None for fewer
\* than 23 bytes or bytes 0, 1 other than 0x02, 0x15; else the decoded packet
parse(manufacturer_data) ==
    IF Len(manufacturer_data) < 23 THEN NoPacket
    ELSE IF manufacturer_data[1] # 2 \/ manufacturer_data[2] # 21 THEN NoPacket
    ELSE LET fields == struct_unpack(Slice(manufacturer_data, 2, 23))
         IN  IF fields.kind = "raised" THEN fields
             ELSE [kind |-> "packet",
                   uuid |-> UuidStr(fields.uuid_bytes),
                   major |-> fields.major,
                   minor |-> fields.minor,
                   tx_power |-> fields.tx_power]

(***************************************************************************)
(* Inputs: the payloads a scan source can hand to the callback.            *)
(***************************************************************************)
\* the 16 bytes of the identifier of the green Tilt, of an identifier that is
\* not in the identity table, and of one whose every byte starts with a zero
\* digit
GreenBytes ==
    <<164, 149, 187, 32, 197, 177, 75, 68, 181, 18, 19, 112, 240, 45, 116, 222>>
ZeroBytes == [n \in 1 .. 16 |-> 0]
CountBytes == [n \in 1 .. 16 |-> n - 1]

\* the iBeacon payload of a beacon: marker bytes, identifier, major and minor
\* as big-endian shorts, tx power as a signed byte
Payload(beacon) ==
    <<2, 21>> \o beacon.uuid_bytes
    \o <<beacon.major \div 256, beacon.major % 256>>
    \o <<beacon.minor \div 256, beacon.minor % 256>>
    \o <<(beacon.tx_power + 256) % 256>>

\* major (temperature, F) and minor (gravity * 1000) values seen on the air
LiveMajors == {70, 250}
LiveMinors == {1035, 2000}

\* payloads seen by the live scanner under the Apple manufacturer id: a known
\* Tilt and a foreign iBeacon
LivePayloads ==
    {Payload(beacon) : beacon \in [uuid_bytes : {GreenBytes, ZeroBytes},
                                   major : LiveMajors,
                                   minor : LiveMinors,
                                   tx_power : {-59}]}

\* bleak_callback: packet = IBeaconParser.parse(raw_data); if packet: ...
\* (pitch.py 126-133)
LivePackets ==
    {packet \in {parse(data) : data \in LivePayloads} :
        packet.kind = "packet"}

\* fake_packet of _start_beacon_simulation
fake_packet ==
    [uuid |-> colors_to_uuid["simulated"], major |-> 70, minor |-> 1035]

(***************************************************************************)
(* Reading construction.                                                   *)
(***************************************************************************)
\* gravity * .001, kept exact as a fraction num/den
_get_decimal_gravity(gravity) == [num |-> gravity, den |-> 1000]

\* acceptable ranges of the configuration (temperature in F, gravity)
temp_range_min == 32
temp_range_max == 212
gravity_range_min == [num |-> 700, den |-> 1000]
gravity_range_max == [num |-> 1400, den |-> 1000]

\* a < b on fractions with positive denominators
FracLess(a, b) == a.num * b.den < b.num * a.den

\* TiltStatus(color, temp_fahrenheit, gravity, config): the Reading with its
\* two derived validity flags; id (the rank of the Reading among those handed
\* to the queue) and uuid (the identifier of the packet) are ghost fields that
\* record where the Reading came from
TiltStatus(id, uuid, color, temp_fahrenheit, gravity) ==
    [id |-> id,
     uuid |-> uuid,
     color |-> color,
     temp_fahrenheit |-> temp_fahrenheit,
     gravity |-> gravity,
     temp_valid |-> temp_range_min < temp_fahrenheit
                    /\ temp_fahrenheit < temp_range_max,
     gravity_valid |-> FracLess(gravity_range_min, gravity)
                       /\ FracLess(gravity, gravity_range_max)]

(***************************************************************************)
(* queue.Queue(maxsize) as used on pitch_q: a FIFO sequence.               *)
(***************************************************************************)
\* pitch_q.qsize()
qsize(q) == Len(q)

\* full() of a queue built without maxsize: never full
full_NoMaxsize(q, maxsize) == 0 < 0 /\ 0 <= qsize(q)

\* pitch_q.full(): 0 < maxsize <= qsize
full(q, maxsize) == 0 < maxsize /\ maxsize <= qsize(q)

\* pitch_q.empty()
empty(q) == qsize(q) = 0

\* an insert at the head of the queue instead of its tail
put_nowait_Front(q, item) == <<item>> \o q

\* the queue after a put_nowait(item) that found room
put_nowait(q, item) == Append(q, item)

\* the item pitch_q.get() returns, and the queue it leaves
get_item(q) == Head(q)
get_rest(q) == Tail(q)

(***************************************************************************)
(* State.                                                                  *)
(***************************************************************************)
VARIABLES
    config,             \* [queue_size, queue_empty_sleep_seconds, webhook_urls]
    timeout_seconds,    \* pitch_main argument
    simulate_beacons,   \* pitch_main argument
    enabledFlag,        \* provider -> what its enabled() returns
    mpc,                \* position of the main thread in pitch_main
    k,                  \* index of the start-up loop over providers
    enabled_providers,  \* the list built by pitch_main
    enabled_calls,      \* provider -> number of enabled() calls
    started,            \* provider -> number of start() calls
    scanner,            \* "none", "started", "stopped": the BleakScanner session
    scan_start,         \* start_time of _run_bleak_scanner
    pitch_q,            \* the queue
    ppc,                \* position of the producer inside _beacon_callback
    tilt_status_p,      \* the TiltStatus the callback is about to enqueue
    fate,               \* what became of the latest beacon event
    put_raised,         \* put_nowait raised queue.Full
    cpc,                \* position of the consumer
    start_time,         \* start_time of _run_queue_consumer
    tilt_status,        \* the TiltStatus the consumer is dispatching
    i,                  \* index into enabled_providers of the next update
    lastOutcome,        \* provider -> outcome of its latest update call
    updates,            \* log of update calls, [ts, provider], in call order
    removed,            \* the readings removed from the queue, in order
    warned,             \* depth named by the "Queue is full" warning of the
                        \* latest full() test of the consumer, 0 if none
    interrupted,        \* a KeyboardInterrupt has been delivered
    abandoned,          \* a dispatch cycle was cut short by the stop
    now,                \* time.time()
    built,              \* the beacon fields a payload was built from
    raw_data,           \* the payload handed to IBeaconParser.parse
    decoded             \* what IBeaconParser.parse returned

vars == <<config, timeout_seconds, simulate_beacons, enabledFlag,
          mpc, k, enabled_providers, enabled_calls, started, scanner,
          scan_start, pitch_q,
          ppc, tilt_status_p, fate, put_raised, cpc,
          start_time, tilt_status, i, lastOutcome, updates, removed, warned,
          interrupted, abandoned, now, built, raw_data, decoded>>

parseVars == <<built, raw_data, decoded>>
cfgVars == <<config, timeout_seconds, simulate_beacons, enabledFlag,
             parseVars>>
mainVars == <<mpc, k, enabled_providers, enabled_calls, started, scanner,
              scan_start>>
prodVars == <<ppc, tilt_status_p, fate, put_raised>>
consVars == <<cpc, start_time, tilt_status, i, lastOutcome, updates, removed,
              warned, abandoned>>

\* the providers handed to pitch_main: one of the default providers
normal_providers == <<"InfluxDb2">>

\* the urls of config.webhook_urls
WebhookUrls == <<"url">>

\* _get_webhook_providers(config): one WebhookCloudProvider per configured url
_get_webhook_providers(cfg) ==
    [n \in 1 .. Len(cfg.webhook_urls) |-> "Webhook"]

\* providers after providers.extend(webhook_providers)
providers == normal_providers \o _get_webhook_providers(config)

\* the providers as a set
ProviderSet == {providers[n] : n \in 1 .. Len(providers)}

\* the value of a local that holds no TiltStatus
NoStatus == [id |-> 0]

\* no beacon has been built and nothing has been parsed
Unparsed == [kind |-> "unparsed"]
NoBeacon ==
    [uuid_bytes |-> ZeroBytes, major |-> 0, minor |-> 0, tx_power |-> 0]

\* pitch_main has been entered: no provider has been asked, no thread and no
\* scanner started, the queue is empty
PipelineInit ==
    /\ mpc = "providers"
    /\ k = 1
    /\ enabled_providers = <<>>
    /\ enabled_calls = [p \in ProviderSet |-> 0]
    /\ started = [p \in ProviderSet |-> 0]
    /\ scanner = "none"
    /\ scan_start = 0
    /\ pitch_q = <<>>
    /\ ppc = "off"
    /\ tilt_status_p = NoStatus
    /\ fate = None
    /\ put_raised = FALSE
    /\ cpc = "off"
    /\ start_time = 0
    /\ tilt_status = NoStatus
    /\ i = 1
    /\ lastOutcome = [p \in ProviderSet |-> "none"]
    /\ updates = <<>>
    /\ removed = <<>>
    /\ warned = 0
    /\ interrupted = FALSE
    /\ abandoned = FALSE
    /\ now = 0

Init ==
    /\ config \in [queue_size : 1 .. MaxQueueSize,
                   queue_empty_sleep_seconds : {0, 1},
                   webhook_urls : {WebhookUrls}]
    /\ timeout_seconds \in {0, 1}
    /\ simulate_beacons \in BOOLEAN
    /\ enabledFlag \in [ProviderSet -> BOOLEAN]
    /\ PipelineInit
    /\ built = NoBeacon
    /\ raw_data = <<>>
    /\ decoded = Unparsed

(***************************************************************************)
(* pitch_main: start-up.                                                   *)
(***************************************************************************)
\* a start-up loop that starts and lists every provider without asking it
StartProvider_NoEnabledTest ==
    /\ mpc = "providers"
    /\ k <= Len(providers)
    /\ enabled_calls' = [enabled_calls EXCEPT ![providers[k]] = @ + 1]
    /\ enabled_providers' = Append(enabled_providers, providers[k])
    /\ started' = [started EXCEPT ![providers[k]] = @ + 1]
    /\ k' = k + 1
    /\ UNCHANGED <<cfgVars, mpc, scanner, scan_start, pitch_q, prodVars,
                   consVars, interrupted, now>>

\* one iteration of "for provider in providers": provider.enabled() is asked
\* and, if it says so, the provider is listed and started (pitch.py 97-103)
StartProvider ==
    /\ mpc = "providers"
    /\ k <= Len(providers)
    /\ enabled_calls' = [enabled_calls EXCEPT ![providers[k]] = @ + 1]
    /\ IF enabledFlag[providers[k]]
       THEN /\ enabled_providers' = Append(enabled_providers, providers[k])
            /\ started' = [started EXCEPT ![providers[k]] = @ + 1]
       ELSE UNCHANGED <<enabled_providers, started>>
    /\ k' = k + 1
    /\ UNCHANGED <<cfgVars, mpc, scanner, scan_start, pitch_q, prodVars,
                   consVars, interrupted, now>>

\* simulate_beacons: the simulator runs on a daemon thread and the main
\* thread runs the consumer, which first takes its start_time
\* (pitch.py 106-109, 156)
StartSimulation ==
    /\ mpc = "providers"
    /\ k > Len(providers)
    /\ simulate_beacons
    /\ ppc' = "idle"
    /\ start_time' = now
    /\ cpc' = "loop"
    /\ mpc' = "consumer"
    /\ UNCHANGED <<cfgVars, k, enabled_providers, enabled_calls, started,
                   scanner, scan_start,
                   pitch_q, tilt_status_p, fate, put_raised,
                   tilt_status, i, lastOutcome, updates, removed, warned,
                   abandoned, interrupted, now>>

\* live mode: the consumer runs on a daemon thread, where it first takes its
\* start_time, and the main thread enters asyncio.run(_run_bleak_scanner(...))
\* (pitch.py 110-119, 156)
StartLive ==
    /\ mpc = "providers"
    /\ k > Len(providers)
    /\ ~simulate_beacons
    /\ start_time' = now
    /\ cpc' = "loop"
    /\ mpc' = "scanner_start"
    /\ UNCHANGED <<cfgVars, k, enabled_providers, enabled_calls, started,
                   scanner, scan_start,
                   pitch_q, prodVars, tilt_status, i, lastOutcome, updates,
                   removed, warned, abandoned, interrupted, now>>

(***************************************************************************)
(* _run_bleak_scanner.                                                     *)
(***************************************************************************)
\* await scanner.start(); start_time = time.time() (pitch.py 135-142)
ScannerStart ==
    /\ mpc = "scanner_start"
    /\ ~interrupted
    /\ scanner' = "started"
    /\ scan_start' = now
    /\ ppc' = "idle"
    /\ mpc' = "scanning"
    /\ UNCHANGED <<cfgVars, k, enabled_providers, enabled_calls, started,
                   pitch_q, tilt_status_p, fate, put_raised, consVars,
                   interrupted, now>>

\* the time budget elapsed: break out of the while loop (pitch.py 145-148);
\* callbacks run on the same event loop, so none is under way
ScannerTimeout ==
    /\ mpc = "scanning"
    /\ ppc = "idle"
    /\ timeout_seconds > 0
    /\ now - scan_start > timeout_seconds
    /\ mpc' = "finally"
    /\ UNCHANGED <<cfgVars, k, enabled_providers, enabled_calls, started,
                   scanner, scan_start,
                   pitch_q, prodVars, consVars, interrupted, now>>

\* the main task is cancelled on KeyboardInterrupt: CancelledError is
\* caught inside the loop (pitch.py 149-150)
ScannerCancelled ==
    /\ mpc = "scanning"
    /\ ppc = "idle"
    /\ interrupted
    /\ mpc' = "finally"
    /\ UNCHANGED <<cfgVars, k, enabled_providers, enabled_calls, started,
                   scanner, scan_start,
                   pitch_q, prodVars, consVars, interrupted, now>>

\* the stop signal arrives while scanner.start() is awaited, or before the
\* try is entered: the exception leaves _run_bleak_scanner without passing
\* through the finally block (pitch.py 137-144, 118-121). Whether the scan
\* session was opened by then is up to the scanner: either outcome can occur.
ScannerStartCancelled ==
    /\ mpc = "scanner_start"
    /\ interrupted
    /\ scanner' \in {"none", "started"}
    /\ mpc' = "returned"
    /\ UNCHANGED <<cfgVars, k, enabled_providers, enabled_calls, started,
                   scan_start,
                   pitch_q, prodVars, consVars, interrupted, now>>

\* finally: await scanner.stop() (pitch.py 151-153); pitch_main returns
ScannerStop ==
    /\ mpc = "finally"
    /\ scanner' = "stopped"
    /\ ppc' = "off"
    /\ mpc' = "returned"
    /\ UNCHANGED <<cfgVars, k, enabled_providers, enabled_calls, started,
                   scan_start, pitch_q,
                   tilt_status_p, fate, put_raised, consVars,
                   interrupted, now>>

(***************************************************************************)
(* _beacon_callback (the producer).                                        *)
(***************************************************************************)
\* the packets the active scan source delivers
SourcePackets == IF simulate_beacons THEN {fake_packet} ELSE LivePackets

\* the callback without the early return on a full queue
Verdict_NoFullCheck(isfull, color, ts) ==
    IF color = None THEN "unknown"
    ELSE IF ~ts.temp_valid THEN "invalid temperature"
    ELSE IF ~ts.gravity_valid THEN "invalid gravity"
    ELSE "accepted"

\* the callback without the gravity check
Verdict_NoGravityCheck(isfull, color, ts) ==
    IF isfull THEN "full"
    ELSE IF color = None THEN "unknown"
    ELSE IF ~ts.temp_valid THEN "invalid temperature"
    ELSE "accepted"

\* the callback with the gravity check made before the temperature check
Verdict_GravityFirst(isfull, color, ts) ==
    IF isfull THEN "full"
    ELSE IF color = None THEN "unknown"
    ELSE IF ~ts.gravity_valid THEN "invalid gravity"
    ELSE IF ~ts.temp_valid THEN "invalid temperature"
    ELSE "accepted"

\* what _beacon_callback does with a packet (pitch.py 182-195): return on a
\* full queue, drop an unknown identifier silently, drop with a log line on
\* an invalid temperature, then on an invalid gravity, else enqueue
Verdict(isfull, color, ts) ==
    IF isfull THEN "full"
    ELSE IF color = None THEN "unknown"
    ELSE IF ~ts.temp_valid THEN "invalid temperature"
    ELSE IF ~ts.gravity_valid THEN "invalid gravity"
    ELSE "accepted"

\* the rank the next Reading handed to the queue will have
NextId == Len(removed) + Len(pitch_q) + 1

\* the callback with a drop-oldest policy: on a full queue the head is thrown
\* away and the new Reading is appended
BeaconCallback_DropOldest ==
    /\ ppc = "idle"
    /\ simulate_beacons \/ mpc = "scanning"
    /\ \E packet \in SourcePackets :
          LET color == uuid_to_colors_get(packet.uuid)
              ts == TiltStatus(NextId, packet.uuid, color, packet.major,
                               _get_decimal_gravity(packet.minor))
              verdict == Verdict(FALSE, color, ts)
          IN  /\ fate' = IF full(pitch_q, config.queue_size) THEN "full" ELSE verdict
              /\ IF verdict = "accepted" /\ full(pitch_q, config.queue_size)
                 THEN /\ pitch_q' = Append(Tail(pitch_q), ts)
                      /\ UNCHANGED <<ppc, tilt_status_p>>
                 ELSE IF verdict = "accepted"
                 THEN /\ NextId <= MaxReadings
                      /\ tilt_status_p' = ts
                      /\ ppc' = "put"
                      /\ UNCHANGED pitch_q
                 ELSE UNCHANGED <<ppc, tilt_status_p, pitch_q>>
    /\ UNCHANGED <<cfgVars, mainVars, put_raised, consVars, interrupted, now>>

\* _beacon_callback(packet) up to the point where it either has returned or
\* is about to call put_nowait (pitch.py 182-194)
Callback(packet) ==
    LET color == uuid_to_colors_get(packet.uuid)
        ts == TiltStatus(NextId, packet.uuid, color, packet.major,
                         _get_decimal_gravity(packet.minor))
        verdict == Verdict(full(pitch_q, config.queue_size), color, ts)
    IN  /\ fate' = verdict
        /\ IF verdict = "accepted"
           THEN /\ NextId <= MaxReadings
                /\ tilt_status_p' = ts
                /\ ppc' = "put"
           ELSE UNCHANGED <<ppc, tilt_status_p>>

\* a beacon arrives from the active scan source and the callback runs on it
\* (pitch.py 126-133, 175-177, 181-194)
BeaconCallback ==
    /\ ppc = "idle"
    /\ simulate_beacons \/ mpc = "scanning"
    /\ \E packet \in SourcePackets : Callback(packet)
    /\ UNCHANGED <<cfgVars, mainVars, pitch_q, put_raised, consVars,
                   interrupted, now>>

\* pitch_q.put_nowait(tilt_status) (pitch.py 195): raises queue.Full when
\* the queue is full at this moment
BeaconCallback_Put ==
    /\ ppc = "put"
    /\ IF full(pitch_q, config.queue_size)
       THEN /\ put_raised' = TRUE
            /\ fate' = "raised"
            /\ UNCHANGED pitch_q
       ELSE /\ pitch_q' = put_nowait(pitch_q, tilt_status_p)
            /\ fate' = "accepted"
            /\ UNCHANGED put_raised
    /\ tilt_status_p' = NoStatus
    /\ ppc' = "idle"
    /\ UNCHANGED <<cfgVars, mainVars, consVars, interrupted, now>>

(***************************************************************************)
(* _run_queue_consumer and _handle_pitch_queue (the consumer).             *)
(* Nothing outside the inner try of _handle_pitch_queue raises in this     *)
(* model, so the handler of pitch.py 165-167 is never entered.             *)
(***************************************************************************)
\* the outcomes of provider.update(tilt_status): it returns, raises
\* RateLimitedException, or raises another Exception
Outcomes == {"ok", "rate_limited", "exception"}

\* a consumer that takes the idle sleep whenever it is configured
HandleQueue_CheckEmpty_AlwaysSleeps ==
    /\ cpc = "loop"
    /\ cpc' = IF config.queue_empty_sleep_seconds > 0
              THEN "timeout_check"
              ELSE "check_full"
    /\ UNCHANGED <<cfgVars, mainVars, pitch_q, prodVars, start_time,
                   tilt_status, i, lastOutcome, updates, removed, warned,
                   abandoned, interrupted, now>>

\* a consumer that goes on to the bounded wait without looking at the queue
HandleQueue_CheckEmpty_NoEmptyTest ==
    /\ cpc = "loop"
    /\ cpc' = "check_full"
    /\ UNCHANGED <<cfgVars, mainVars, pitch_q, prodVars, start_time,
                   tilt_status, i, lastOutcome, updates, removed, warned,
                   abandoned, interrupted, now>>

\* if config.queue_empty_sleep_seconds > 0 and pitch_q.empty(): sleep and
\* return (pitch.py 199-201)
HandleQueue_CheckEmpty ==
    /\ cpc = "loop"
    /\ cpc' = IF config.queue_empty_sleep_seconds > 0 /\ empty(pitch_q)
              THEN "timeout_check"
              ELSE "check_full"
    /\ UNCHANGED <<cfgVars, mainVars, pitch_q, prodVars, start_time,
                   tilt_status, i, lastOutcome, updates, removed, warned,
                   abandoned, interrupted, now>>

\* a consumer that never prints the warning
HandleQueue_CheckFull_Silent ==
    /\ cpc = "check_full"
    /\ warned' = 0
    /\ cpc' = "get"
    /\ UNCHANGED <<cfgVars, mainVars, pitch_q, prodVars, start_time,
                   tilt_status, i, lastOutcome, updates, removed, abandoned,
                   interrupted, now>>

\* if pitch_q.full(): length = pitch_q.qsize(); print the warning with the
\* length (pitch.py 203-205)
HandleQueue_CheckFull ==
    /\ cpc = "check_full"
    /\ warned' = IF full(pitch_q, config.queue_size) THEN qsize(pitch_q) ELSE 0
    /\ cpc' = "get"
    /\ UNCHANGED <<cfgVars, mainVars, pitch_q, prodVars, start_time,
                   tilt_status, i, lastOutcome, updates, removed, abandoned,
                   interrupted, now>>

\* the position after the update of provider number n has ended: the next
\* provider, or the end of the for loop, the echo of the Reading (printing is
\* not part of the state) and the return (pitch.py 212, 224-225)
AfterUpdate(n) ==
    IF n + 1 <= Len(enabled_providers) THEN "dispatch" ELSE "timeout_check"

\* tilt_status = pitch_q.get(timeout=1) returns an item (pitch.py 208)
HandleQueue_Get ==
    /\ cpc = "get"
    /\ ~empty(pitch_q)
    /\ cpc' = AfterUpdate(0)
    /\ pitch_q' = get_rest(pitch_q)
    /\ removed' = Append(removed, get_item(pitch_q))
    /\ tilt_status' = get_item(pitch_q)
    /\ i' = 1
    /\ UNCHANGED <<cfgVars, mainVars, prodVars, start_time, lastOutcome,
                   updates, warned, abandoned, interrupted, now>>

\* the bounded wait ran out on an empty queue: queue.Empty, return
\* (pitch.py 209-210)
HandleQueue_GetEmpty ==
    /\ cpc = "get"
    /\ empty(pitch_q)
    /\ cpc' = "timeout_check"
    /\ UNCHANGED <<cfgVars, mainVars, pitch_q, prodVars, start_time,
                   tilt_status, i, lastOutcome, updates, removed, warned,
                   abandoned, interrupted, now>>

\* provider.update(tilt_status) is called (pitch.py 212-215)
HandleQueue_CallUpdate ==
    /\ cpc = "dispatch"
    /\ updates' = Append(updates, [ts |-> tilt_status,
                                   provider |-> enabled_providers[i]])
    /\ cpc' = "in_update"
    /\ UNCHANGED <<cfgVars, mainVars, pitch_q, prodVars, start_time,
                   tilt_status, i, lastOutcome, removed, warned, abandoned,
                   interrupted, now>>

\* an update whose generic failure ends the for loop
HandleQueue_UpdateEnds_ExceptionAborts ==
    /\ cpc = "in_update"
    /\ \E outcome \in Outcomes :
          /\ lastOutcome' = [lastOutcome EXCEPT ![enabled_providers[i]] = outcome]
          /\ cpc' = IF outcome = "exception" THEN "timeout_check" ELSE AfterUpdate(i)
    /\ i' = i + 1
    /\ UNCHANGED <<cfgVars, mainVars, pitch_q, prodVars, start_time,
                   tilt_status, updates, removed, warned, abandoned,
                   interrupted, now>>

\* an update whose rate-limit signal ends the for loop
HandleQueue_UpdateEnds_RateLimitBreaks ==
    /\ cpc = "in_update"
    /\ \E outcome \in Outcomes :
          /\ lastOutcome' = [lastOutcome EXCEPT ![enabled_providers[i]] = outcome]
          /\ cpc' = IF outcome = "rate_limited" THEN "timeout_check" ELSE AfterUpdate(i)
    /\ i' = i + 1
    /\ UNCHANGED <<cfgVars, mainVars, pitch_q, prodVars, start_time,
                   tilt_status, updates, removed, warned, abandoned,
                   interrupted, now>>

\* an update whose generic failure is not caught and ends the consumer
HandleQueue_UpdateEnds_ExceptionPropagates ==
    /\ cpc = "in_update"
    /\ \E outcome \in Outcomes :
          /\ lastOutcome' = [lastOutcome EXCEPT ![enabled_providers[i]] = outcome]
          /\ cpc' = IF outcome = "exception" THEN "stopped" ELSE AfterUpdate(i)
    /\ i' = i + 1
    /\ UNCHANGED <<cfgVars, mainVars, pitch_q, prodVars, start_time,
                   tilt_status, updates, removed, warned, abandoned,
                   interrupted, now>>

\* an update whose generic failure is answered by one more call to the same
\* provider
HandleQueue_UpdateEnds_Retry ==
    /\ cpc = "in_update"
    /\ \E outcome \in Outcomes :
          /\ lastOutcome' = [lastOutcome EXCEPT ![enabled_providers[i]] = outcome]
          /\ IF outcome = "exception" /\ lastOutcome[enabled_providers[i]] # "exception"
             THEN i' = i /\ cpc' = "dispatch"
             ELSE i' = i + 1 /\ cpc' = AfterUpdate(i)
    /\ UNCHANGED <<cfgVars, mainVars, pitch_q, prodVars, start_time,
                   tilt_status, updates, removed, warned, abandoned,
                   interrupted, now>>

\* the call returns or raises; either way the for loop goes on to the next
\* provider (pitch.py 216-222)
HandleQueue_UpdateEnds ==
    /\ cpc = "in_update"
    /\ \E outcome \in Outcomes :
          lastOutcome' = [lastOutcome EXCEPT ![enabled_providers[i]] = outcome]
    /\ i' = i + 1
    /\ cpc' = AfterUpdate(i)
    /\ UNCHANGED <<cfgVars, mainVars, pitch_q, prodVars, start_time,
                   tilt_status, updates, removed, warned, abandoned,
                   interrupted, now>>

\* a budget test with the two times exchanged
TimedOut_Exchanged ==
    timeout_seconds > 0 /\ start_time - now > timeout_seconds

\* the time budget, looked at after _handle_pitch_queue has returned
TimedOut == timeout_seconds > 0 /\ now - start_time > timeout_seconds

\* the budget has elapsed: return (pitch.py 162-163); in simulation the
\* consumer is the main thread, so pitch_main returns too
ConsumerTimeout ==
    /\ cpc = "timeout_check"
    /\ TimedOut
    /\ cpc' = "stopped"
    /\ mpc' = IF simulate_beacons THEN "returned" ELSE mpc
    /\ UNCHANGED <<cfgVars, k, enabled_providers, enabled_calls, started,
                   scanner, scan_start,
                   pitch_q, prodVars, start_time, tilt_status, i, lastOutcome,
                   updates, removed, warned, abandoned, interrupted, now>>

\* the budget has not elapsed (or there is none): next iteration of while True
ConsumerContinue ==
    /\ cpc = "timeout_check"
    /\ ~TimedOut
    /\ cpc' = "loop"
    /\ UNCHANGED <<cfgVars, mainVars, pitch_q, prodVars, start_time,
                   tilt_status, i, lastOutcome, updates, removed, warned,
                   abandoned, interrupted, now>>

(***************************************************************************)
(* External stop signal and the end of the process.                        *)
(***************************************************************************)
\* the consumer is between removing a Reading and the end of the for loop
MidCycle == cpc \in {"dispatch", "in_update"}

\* the consumer is running
ConsumerRunning ==
    cpc \in {"loop", "check_full", "get", "dispatch", "in_update",
             "timeout_check"}

\* live mode: KeyboardInterrupt reaches asyncio.run on the main thread, which
\* cancels the scanner task (pitch.py 118-121)
KeyboardInterrupt_Live ==
    /\ mpc \in {"scanner_start", "scanning"}
    /\ ~interrupted
    /\ interrupted' = TRUE
    /\ UNCHANGED <<cfgVars, mainVars, pitch_q, prodVars, consVars, now>>

\* simulation: KeyboardInterrupt is raised in the main thread, which is inside
\* _run_queue_consumer; "except Exception" does not catch it, so it leaves
\* the for loop, _handle_pitch_queue, _run_queue_consumer and pitch_main
\* (pitch.py 109, 157-167, 212-222)
KeyboardInterrupt_Simulation ==
    /\ mpc = "consumer"
    /\ ConsumerRunning
    /\ ~interrupted
    /\ interrupted' = TRUE
    /\ abandoned' = MidCycle
    /\ cpc' = "stopped"
    /\ mpc' = "raised"
    /\ UNCHANGED <<cfgVars, k, enabled_providers, enabled_calls, started,
                   scanner, scan_start,
                   pitch_q, prodVars, start_time, tilt_status, i, lastOutcome,
                   updates, removed, warned, now>>

\* simulation: the KeyboardInterrupt arrives while the provider sleeps between
\* its own retries; the provider catches it and update returns normally
\* (influxdb2.py 49-54)
KeyboardInterrupt_InProvider ==
    /\ mpc = "consumer"
    /\ cpc = "in_update"
    /\ ~interrupted
    /\ interrupted' = TRUE
    /\ lastOutcome' = [lastOutcome EXCEPT ![enabled_providers[i]] = "ok"]
    /\ i' = i + 1
    /\ cpc' = AfterUpdate(i)
    /\ UNCHANGED <<cfgVars, mainVars, pitch_q, prodVars, start_time,
                   tilt_status, updates, removed, warned, abandoned, now>>

\* pitch_main has ended and the interpreter exits: the daemon threads (the
\* simulator, or the consumer in live mode) are ended wherever they are
\* (pitch.py 108, 111-116: daemon=True)
ProcessExit ==
    /\ mpc \in {"returned", "raised"}
    /\ mpc' = "exited"
    /\ ppc' = "off"
    /\ cpc' = "stopped"
    /\ abandoned' = (abandoned \/ MidCycle)
    /\ UNCHANGED <<cfgVars, k, enabled_providers, enabled_calls, started,
                   scanner, scan_start,
                   pitch_q, tilt_status_p, fate, put_raised,
                   start_time, tilt_status, i, lastOutcome, updates, removed,
                   warned, interrupted, now>>

\* time passes, one unit at a time.  The clock is read only for the time
\* budget, so with no budget it is left alone; and the unit is coarse: the
\* consumer and the scanner take their start_time before the first unit has
\* passed, which makes the origin of the clock the start of both
Tick ==
    /\ now < MaxTime
    /\ timeout_seconds > 0
    /\ mpc \notin {"providers", "scanner_start"}
    /\ now' = now + 1
    /\ UNCHANGED <<cfgVars, mainVars, pitch_q, prodVars, consVars, interrupted>>

Next ==
    \/ StartProvider
    \/ StartSimulation
    \/ StartLive
    \/ ScannerStart
    \/ ScannerTimeout
    \/ ScannerCancelled
    \/ ScannerStartCancelled
    \/ ScannerStop
    \/ BeaconCallback
    \/ BeaconCallback_Put
    \/ HandleQueue_CheckEmpty
    \/ HandleQueue_CheckFull
    \/ HandleQueue_Get
    \/ HandleQueue_GetEmpty
    \/ HandleQueue_CallUpdate
    \/ HandleQueue_UpdateEnds
    \/ ConsumerTimeout
    \/ ConsumerContinue
    \/ KeyboardInterrupt_Live
    \/ KeyboardInterrupt_Simulation
    \/ KeyboardInterrupt_InProvider
    \/ ProcessExit
    \/ Tick

Spec == Init /\ [][Next]_vars

(***************************************************************************)
(* Scheduling: the consumer thread and the main thread are given the       *)
(* processor again and again, a call to update comes back, and time        *)
(* passes.  Nothing is assumed of the beacons, of the stop signal or of    *)
(* the end of the process.  Every step of the consumer changes cpc, every   *)
(* step of the main thread changes mpc or k, and Tick changes now.         *)
(***************************************************************************)
\* the steps of _run_queue_consumer
Consumer ==
    \/ HandleQueue_CheckEmpty
    \/ HandleQueue_CheckFull
    \/ HandleQueue_Get
    \/ HandleQueue_GetEmpty
    \/ HandleQueue_CallUpdate
    \/ HandleQueue_UpdateEnds
    \/ ConsumerTimeout
    \/ ConsumerContinue

\* the steps of the main thread up to the return of pitch_main
Main ==
    \/ StartProvider
    \/ StartSimulation
    \/ StartLive
    \/ ScannerStart
    \/ ScannerTimeout
    \/ ScannerCancelled
    \/ ScannerStartCancelled
    \/ ScannerStop

FairSpec ==
    /\ Init
    /\ [][Next]_vars
    /\ WF_cpc(Consumer)
    /\ WF_<<mpc, k>>(Main)
    /\ WF_now(Tick)

(***************************************************************************)
(* The decoder on its own: payloads are built and handed to                *)
(* IBeaconParser.parse.                                                    *)
(***************************************************************************)
\* the beacons payloads are built from
TestBeacons ==
    [uuid_bytes : {GreenBytes, ZeroBytes, CountBytes},
     major : {0, 70, 256, 65535},
     minor : {0, 1035, 65535},
     tx_power : {-128, -59, 0, 127}]

\* first two bytes that are not the iBeacon marker 0x02 0x15
WrongMarkers == {<<2, 22>>, <<3, 21>>, <<0, 0>>, <<21, 2>>}

\* the payloads made from a beacon: the 23 bytes with up to MaxExtra bytes
\* behind them, every proper prefix of the 23 bytes, and the 23 bytes with
\* other first two bytes
TestPayloads(b) ==
    {Payload(b) \o [n \in 1 .. extra |-> 255] : extra \in 0 .. MaxExtra}
    \cup {SubSeq(Payload(b), 1, len) : len \in 0 .. 22}
    \cup {m \o SubSeq(Payload(b), 3, 23) : m \in WrongMarkers}

ParseInit ==
    /\ config = [queue_size |-> 1, queue_empty_sleep_seconds |-> 0,
                 webhook_urls |-> WebhookUrls]
    /\ timeout_seconds = 0
    /\ simulate_beacons = FALSE
    /\ enabledFlag = [p \in ProviderSet |-> FALSE]
    /\ PipelineInit
    /\ built \in TestBeacons
    /\ raw_data \in TestPayloads(built)
    /\ decoded = Unparsed

\* packet = IBeaconParser.parse(raw_data) (pitch.py 130)
Parse ==
    /\ decoded.kind = "unparsed"
    /\ decoded' = parse(raw_data)
    /\ UNCHANGED <<config, timeout_seconds, simulate_beacons, enabledFlag,
                   built, raw_data, mainVars, pitch_q, prodVars, consVars,
                   interrupted, now>>

ParseNext == Parse

ParseSpec == ParseInit /\ [][ParseNext]_vars

(***************************************************************************)
(* Properties.                                                             *)
(***************************************************************************)
\* number of enabled providers
NEnabled == Len(enabled_providers)

\* every Reading that is somewhere in the pipeline or was seen by a provider
ReadingsInSystem ==
    {pitch_q[n] : n \in 1 .. Len(pitch_q)}
    \cup {removed[n] : n \in 1 .. Len(removed)}
    \cup {updates[n].ts : n \in 1 .. Len(updates)}
    \cup (IF ppc = "put" THEN {tilt_status_p} ELSE {})

\* the update call number idx, if every removed Reading gets every enabled
\* provider in registration order
ExpectedUpdate(idx) ==
    [ts |-> removed[((idx - 1) \div NEnabled) + 1],
     provider |-> enabled_providers[((idx - 1) % NEnabled) + 1]]

\* C1: every Reading removed from the queue is offered to every enabled
\* provider, in registration order, whatever the earlier providers answered:
\* the log of update calls is the removed Readings times the provider list,
\* complete up to the position of the consumer in the current cycle.
C1_EverySinkAttempted ==
    /\ \A idx \in 1 .. Len(updates) : updates[idx] = ExpectedUpdate(idx)
    /\ cpc = "dispatch" =>
          Len(updates) = (Len(removed) - 1) * NEnabled + (i - 1)
    /\ cpc = "in_update" =>
          Len(updates) = (Len(removed) - 1) * NEnabled + i
    /\ cpc \in {"loop", "check_full", "get", "timeout_check"} =>
          Len(updates) = Len(removed) * NEnabled

\* C1 witness: in the second cycle the second provider is being updated after
\* the first provider raised a generic failure on this Reading
C1_Witness ==
    /\ cpc = "in_update"
    /\ i = 2
    /\ Len(removed) = 2
    /\ lastOutcome[enabled_providers[1]] = "exception"

\* C2: the queue never holds more Readings than config.queue_size.
C2_QueueWithinCapacity == Len(pitch_q) <= config.queue_size

\* C2 witness: a queue of capacity two is full and a beacon has been turned
\* away by it
C2_Witness ==
    /\ config.queue_size = 2
    /\ Len(pitch_q) = 2
    /\ fate = "full"
    /\ ppc = "idle"

\* C3: the producer never raises and never has to wait: put_nowait has not
\* raised queue.Full, and whenever the callback is about to call put_nowait
\* the queue has room and the call can be made at once.
C3_ProducerNeverBlocksNorRaises ==
    /\ ~put_raised
    /\ ppc = "put" =>
          /\ ~full(pitch_q, config.queue_size)
          /\ ENABLED BeaconCallback_Put

\* C3 witness: the queue is at capacity, the consumer is inside a provider's
\* update, and a beacon was turned away without an error
C3_Witness ==
    /\ Len(pitch_q) = config.queue_size
    /\ cpc = "in_update"
    /\ fate = "full"
    /\ ~put_raised

\* C4: Readings leave the queue in the order they entered it and the update
\* calls follow that order: the n-th Reading removed is the n-th Reading
\* enqueued, the queue holds the following ones in order, and no update call
\* for a later Reading precedes one for an earlier Reading.
C4_FifoDispatch ==
    /\ \A n \in 1 .. Len(removed) : removed[n].id = n
    /\ \A n \in 1 .. Len(pitch_q) : pitch_q[n].id = Len(removed) + n
    /\ \A a, b \in 1 .. Len(updates) :
          a < b => updates[a].ts.id <= updates[b].ts.id

\* C4 witness: two Readings were in the queue together and both have been
\* dispatched to both providers
C4_Witness ==
    /\ config.queue_size = 2
    /\ Len(removed) = 2
    /\ Len(updates) = 4
    /\ cpc = "timeout_check"

\* C5: every Reading in the queue, about to be enqueued, removed or handed to
\* a provider has both validity flags true.
C5_OnlyValidReadings ==
    \A r \in ReadingsInSystem : r.temp_valid /\ r.gravity_valid

\* C5 witness: a beacon with an out-of-range gravity was discarded while a
\* valid Reading is in the queue and another has reached a provider
C5_Witness ==
    /\ fate = "invalid gravity"
    /\ Len(pitch_q) = 1
    /\ Len(updates) >= 1

\* C6: an identifier that is absent from uuid_to_colors never produces a
\* Reading: every Reading in the pipeline or seen by a provider comes from a
\* packet whose identifier is in the table and carries that entry's color, and
\* the callback that meets an absent identifier changes neither the queue nor
\* the update log and returns.
C6_UnknownIdentifierDropped ==
    /\ [](\A r \in ReadingsInSystem :
             /\ r.uuid \in DOMAIN uuid_to_colors
             /\ r.color = uuid_to_colors[r.uuid])
    /\ [][fate # "unknown" /\ fate' = "unknown" =>
             /\ pitch_q' = pitch_q
             /\ updates' = updates
             /\ ppc' = "idle"]_vars

\* C6 witness: a beacon with an absent identifier was dropped while the
\* pipeline was busy with Readings of a known identifier
C6_Witness ==
    /\ fate = "unknown"
    /\ Len(pitch_q) = 1
    /\ cpc = "in_update"

\* C7: a rate-limit signal ends neither the cycle nor later attempts: the
\* step in which an update raises it moves on to the next provider (or ends
\* the cycle after the last one) and leaves the provider list alone; from
\* the dispatch position the consumer always calls update on the provider at
\* index i with the current Reading, whatever that provider answered before;
\* and every removal starts the iteration at the first provider.
C7_RateLimitSkipsNothing ==
    [][/\ (/\ cpc = "in_update"
           /\ cpc' \notin {"in_update", "stopped"}
           /\ lastOutcome'[enabled_providers[i]] = "rate_limited")
          => /\ i' = i + 1
             /\ enabled_providers' = enabled_providers
             /\ cpc' = IF i < NEnabled THEN "dispatch" ELSE "timeout_check"
       /\ (cpc = "dispatch" /\ cpc' # "dispatch")
          => \/ cpc' = "stopped"
             \/ /\ cpc' = "in_update"
                /\ updates' = Append(updates, [ts |-> tilt_status,
                                               provider |-> enabled_providers[i]])
       /\ removed' # removed
          => /\ i' = 1
             /\ cpc' = IF NEnabled >= 1 THEN "dispatch" ELSE "timeout_check"]_vars

\* C7 witness: the first provider rate-limited the first Reading, the second
\* provider was still called for it, and the first provider is being called
\* again for the second Reading
C7_Witness ==
    /\ cpc = "in_update"
    /\ i = 1
    /\ Len(removed) = 2
    /\ Len(updates) = 3
    /\ lastOutcome[enabled_providers[1]] = "rate_limited"

\* the time budget has run out for the consumer or, in live mode, for the
\* scanner whose return ends the process
BudgetExpired ==
    /\ timeout_seconds > 0
    /\ \/ now - start_time > timeout_seconds
       \/ ~simulate_beacons /\ scanner # "none"
                            /\ now - scan_start > timeout_seconds

\* C8: the consumer is stopped only after the time budget has run out or a
\* KeyboardInterrupt was delivered; in particular with timeout_seconds = 0 and
\* no interrupt it is never stopped, whatever the providers raise.
C8_StopsOnlyOnBudgetOrInterrupt ==
    cpc = "stopped" => (interrupted \/ BudgetExpired)

\* C8 witness: no budget, no interrupt, one provider raised a generic failure
\* and the other a rate limit, and the consumer is at the top of its loop
\* after two complete cycles
C8_Witness ==
    /\ timeout_seconds = 0
    /\ ~interrupted
    /\ NEnabled = 2
    /\ lastOutcome[enabled_providers[1]] = "exception"
    /\ lastOutcome[enabled_providers[2]] = "rate_limited"
    /\ Len(updates) = 4
    /\ cpc = "loop"

\* C9: on a KeyboardInterrupt ingestion halts first, a dispatch cycle under
\* way finishes its iteration over the providers, and only then is the
\* consumer stopped: the step that stops the consumer after an interrupt
\* finds the producer off and no cycle under way.
C9_GracefulStop ==
    [][(interrupted' /\ cpc # "stopped" /\ cpc' = "stopped")
          => (ppc = "off" /\ ~MidCycle)]_vars

\* C10: an insert attempt on a full queue drops the incoming Reading: while
\* the queue is at capacity the only change it can undergo is the removal of
\* its head by the consumer, and no error is raised; with capacity one and
\* no removal yet the queue holds the first Reading.
C10_RejectNewest ==
    [][/\ full(pitch_q, config.queue_size)
          => /\ pitch_q' = pitch_q \/ pitch_q' = Tail(pitch_q)
             /\ ~put_raised'
       /\ (config.queue_size = 1 /\ removed' = <<>> /\ pitch_q' # <<>>)
          => pitch_q'[1].id = 1]_vars

\* C10 witness: capacity one, nothing removed yet, a second beacon was turned
\* away and the queue still holds the first Reading
C10_Witness ==
    /\ config.queue_size = 1
    /\ removed = <<>>
    /\ fate = "full"
    /\ Len(pitch_q) = 1
    /\ pitch_q[1].id = 1
    /\ ~put_raised

\* the number of update calls made for Reading ts on provider p
UpdateCalls(ts, p) ==
    Cardinality({idx \in 1 .. Len(updates) :
                    updates[idx] = [ts |-> ts, provider |-> p]})

\* C11: a Reading is removed from the queue at most once and is never put
\* back, and no provider is called twice for the same Reading, whatever the
\* call answered: once the cycle of a Reading is over, every enabled provider
\* was called exactly once for it and every other provider never.
C11_NoRetryNoRequeue ==
    /\ \A a, b \in 1 .. Len(removed) : removed[a] = removed[b] => a = b
    /\ \A a \in 1 .. Len(removed), n \in 1 .. Len(pitch_q) :
          removed[a] # pitch_q[n]
    /\ \A a \in 1 .. Len(removed), p \in ProviderSet :
          /\ UpdateCalls(removed[a], p) <= 1
          /\ (\A n \in 1 .. NEnabled : enabled_providers[n] # p) =>
                UpdateCalls(removed[a], p) = 0
          /\ (ConsumerRunning /\ (a < Len(removed) \/ ~MidCycle)
                /\ \E n \in 1 .. NEnabled : enabled_providers[n] = p) =>
                UpdateCalls(removed[a], p) = 1

\* C11 witness: the first Reading met a generic failure on one provider and a
\* rate limit on the other, its cycle is over, and the consumer is removing
\* the second Reading with four calls not yet made
C11_Witness ==
    /\ NEnabled = 2
    /\ Len(removed) = 1
    /\ Len(updates) = 2
    /\ lastOutcome[enabled_providers[1]] = "exception"
    /\ lastOutcome[enabled_providers[2]] = "rate_limited"
    /\ cpc = "get"
    /\ Len(pitch_q) = 1

\* C20: with config.queue_empty_sleep_seconds > 0 the consumer is past the
\* empty test only on a queue that holds a Reading, and as nobody else removes,
\* pitch_q.get finds a Reading at once: the queue.Empty branch cannot be
\* taken, and an empty queue is met by the idle sleep alone.
C20_GetNeverEmpty ==
    config.queue_empty_sleep_seconds > 0 =>
        /\ cpc \in {"check_full", "get"} => ~empty(pitch_q)
        /\ cpc = "get" => ENABLED HandleQueue_Get
        /\ ~ENABLED HandleQueue_GetEmpty

\* C20 witness: with the idle sleep configured the consumer stands before
\* pitch_q.get while the producer stands before put_nowait with one Reading
\* queued
C20_Witness ==
    /\ config.queue_empty_sleep_seconds > 0
    /\ cpc = "get"
    /\ ppc = "put"
    /\ Len(pitch_q) = 1
    /\ warned = 0

\* an insert attempt made after the latest removal found the queue at
\* capacity: the latest beacon was turned away and the queue is still full
\* (a removal leaves it below capacity, so the refusal came after it)
DroppedSinceRemoval ==
    fate = "full" /\ full(pitch_q, config.queue_size)

\* C17 as claimed: every removal that follows a refused insert attempt is
\* preceded, in its own cycle, by the warning.
C17_WarningOnEveryDrop ==
    [][(removed' # removed /\ DroppedSinceRemoval) => warned > 0]_vars

\* C17 amended: the warning is printed exactly when the consumer's own full()
\* test finds the queue at capacity, and then it names the capacity, which is
\* still the depth when the Reading is removed; so a refused insert attempt
\* made before that test is always reported in the cycle, while one made
\* between the test and the removal is not.
C17_WarningOnFullAtTest ==
    [][/\ (cpc = "check_full" /\ cpc' = "get") =>
            /\ DroppedSinceRemoval => warned' = config.queue_size
            /\ warned' > 0 <=> full(pitch_q, config.queue_size)
       /\ (removed' # removed /\ warned > 0) =>
            /\ warned = qsize(pitch_q)
            /\ warned = config.queue_size]_vars

\* C17 witness: a beacon was turned away by a full queue of two, the consumer
\* has printed the warning with depth two and is about to remove a Reading
C17_Witness ==
    /\ cpc = "get"
    /\ warned = 2
    /\ fate = "full"
    /\ Len(pitch_q) = 2

\* the packet has a known identifier and a temperature or gravity out of range
KnownInvalid(packet) ==
    LET color == uuid_to_colors_get(packet.uuid)
        ts == TiltStatus(NextId, packet.uuid, color, packet.major,
                         _get_decimal_gravity(packet.minor))
    IN  color # None /\ (~ts.temp_valid \/ ~ts.gravity_valid)

\* the log line _beacon_callback owes to a known packet with a bad value:
\* the temperature is looked at first
FailedCheck(packet) ==
    IF packet.major <= temp_range_min \/ packet.major >= temp_range_max
    THEN "invalid temperature"
    ELSE "invalid gravity"

\* a step in which _beacon_callback was called on the packet and ran up to its
\* return or up to put_nowait
CallbackOn(packet) ==
    LET color == uuid_to_colors_get(packet.uuid)
        ts == TiltStatus(NextId, packet.uuid, color, packet.major,
                         _get_decimal_gravity(packet.minor))
    IN  /\ ppc = "idle"
        /\ simulate_beacons \/ mpc = "scanning"
        /\ fate' = Verdict(full(pitch_q, config.queue_size), color, ts)
        /\ UNCHANGED <<cfgVars, mainVars, put_raised, consVars, interrupted,
                       now>>

C15_SessionClosedOnStop ==
    (~simulate_beacons /\ mpc \in {"returned", "exited"}) =>
        scanner # "started"

\* the providers of the list whose enabled() says yes, in registration order
RECURSIVE EnabledPrefix(_)
EnabledPrefix(n) ==
    IF n = 0 THEN <<>>
    ELSE IF enabledFlag[providers[n]]
         THEN Append(EnabledPrefix(n - 1), providers[n])
         ELSE EnabledPrefix(n - 1)

\* the number of entries of providers[1 .. n] that are p
RECURSIVE Registered(_, _)
Registered(p, n) ==
    IF n = 0 THEN 0
    ELSE Registered(p, n - 1) + (IF providers[n] = p THEN 1 ELSE 0)

\* C16: membership is decided once.  While the start-up loop runs, neither
\* the consumer nor a scan source nor the scanner is started and no update
\* has been made; each registered provider is asked enabled() once and each
\* enabled one is started once and listed, in registration order; after the
\* loop the list, the enabled() and the start() counts never change; and every
\* update goes to a listed, started provider whose enabled() said yes.
C16_MembershipDecidedOnce ==
    /\ [](/\ mpc = "providers" =>
               /\ cpc = "off" /\ ppc = "off" /\ scanner = "none"
               /\ updates = <<>>
           /\ enabled_providers = EnabledPrefix(k - 1)
           /\ \A p \in ProviderSet :
                 /\ enabled_calls[p] = Registered(p, k - 1)
                 /\ started[p] = IF enabledFlag[p] THEN enabled_calls[p] ELSE 0
                 /\ mpc # "providers" => enabled_calls[p] = 1
           /\ \A idx \in 1 .. Len(updates) :
                 /\ enabledFlag[updates[idx].provider]
                 /\ started[updates[idx].provider] = 1
                 /\ \E n \in 1 .. NEnabled :
                       enabled_providers[n] = updates[idx].provider)
    /\ [][mpc # "providers" =>
             UNCHANGED <<enabled_providers, enabled_calls, started, k>>]_vars

\* C16 witness: the first provider said no and the second yes; two Readings
\* were dispatched, each to the second provider alone
C16_Witness ==
    /\ mpc # "providers"
    /\ ~enabledFlag[providers[1]]
    /\ enabledFlag[providers[2]]
    /\ enabled_calls[providers[1]] = 1
    /\ started[providers[1]] = 0
    /\ Len(updates) = 2
    /\ cpc = "timeout_check"

\* the payload is shorter than 23 bytes or does not start with 0x02 0x15
Malformed(data) ==
    \/ Len(data) < 23
    \/ data[1] # 2
    \/ data[2] # 21

\* C13: for every payload shorter than 23 bytes or whose first two bytes are
\* not 0x02 0x15, IBeaconParser.parse returns None: it does not raise, and it
\* changes neither the payload nor anything in the pipeline.
C13_MalformedGivesNone ==
    /\ []((decoded.kind # "unparsed" /\ Malformed(raw_data)) =>
             decoded = NoPacket)
    /\ [][UNCHANGED <<raw_data, built, mainVars, pitch_q, prodVars,
                      consVars>>]_vars

\* C13 witness: 22 bytes that start with the marker were parsed to None
C13_Witness ==
    /\ decoded.kind = "None"
    /\ Len(raw_data) = 22
    /\ raw_data[1] = 2
    /\ raw_data[2] = 21

\* C14: a payload built as 0x02 0x15, a 16-byte identifier, major and minor
\* as big-endian shorts and tx power as a signed byte is parsed to a packet
\* with exactly that major, minor and tx power and with the identifier in its
\* UUID string form, which no other identifier shares and which for the bytes
\* of the green Tilt is the key of the identity table.
C14_RoundTrip ==
    (decoded.kind # "unparsed" /\ raw_data = Payload(built)) =>
        /\ decoded.kind = "packet"
        /\ decoded.major = built.major
        /\ decoded.minor = built.minor
        /\ decoded.tx_power = built.tx_power
        /\ decoded.uuid = UuidStr(built.uuid_bytes)
        /\ \A b \in TestBeacons :
              UuidStr(b.uuid_bytes) = decoded.uuid =>
                  b.uuid_bytes = built.uuid_bytes
        /\ built.uuid_bytes = GreenBytes =>
              /\ decoded.uuid = colors_to_uuid["green"]
              /\ uuid_to_colors_get(decoded.uuid) = "green"
        /\ built.uuid_bytes = CountBytes =>
              decoded.uuid = "00010203-0405-0607-0809-0a0b0c0d0e0f"

\* C14 witness: the payload of the green Tilt with the largest major and the
\* smallest tx power was parsed
C14_Witness ==
    /\ decoded.kind = "packet"
    /\ raw_data = Payload(built)
    /\ built.uuid_bytes = GreenBytes
    /\ decoded.major = 65535
    /\ decoded.minor = 1035
    /\ decoded.tx_power = -128

InQueue(id) == \E n \in 1 .. Len(pitch_q) : pitch_q[n].id = id

\* update was called on every enabled provider for the Reading of rank id
Dispatched(id) ==
    /\ \E n \in 1 .. Len(removed) : removed[n].id = id
    /\ \A n \in 1 .. NEnabled :
          \E idx \in 1 .. Len(updates) :
              /\ updates[idx].ts.id = id
              /\ updates[idx].provider = enabled_providers[n]

\* C19: every Reading that got into the queue is in time removed and offered
\* to every enabled provider, unless the consumer is stopped first.
C19_EveryReadingDispatched ==
    \A id \in 1 .. MaxReadings :
        InQueue(id) ~> (cpc = "stopped" \/ Dispatched(id))

\* C19 witness: with no time budget and the idle sleep configured, the second
\* Reading was removed and offered to both providers, and the consumer runs on
C19_Witness ==
    /\ timeout_seconds = 0
    /\ config.queue_empty_sleep_seconds > 0
    /\ NEnabled = 2
    /\ Dispatched(2)
    /\ cpc = "loop"

==============================================================================
